---- MODULE Spec2Model ----
(***************************************************************************)
(* A model of new_parse_assets.py: main() loads response.json, converts    *)
(* every array element to a Device (Device.from_dict), and save_to_excel   *)
(* renders the Device, Software and Vulnerability sheets, sizes columns    *)
(* and rows, and saves the workbook.                                       *)
(*                                                                         *)
(* Text is a sequence of one-character strings, so that len(), join() and  *)
(* split("\n") are computed and not assumed.  Column widths are kept in    *)
(* tenths of a width unit, so that (max_length + 2) * 1.2 is the integer   *)
(* (max_length + 2) * 12.                                                  *)
(***************************************************************************)
EXTENDS Integers, Sequences, FiniteSets, TLC

\* Bounds of the model: the longest input array, and the longest software
\* and vulnerabilities list of one device.
MaxDevices == 2
MaxItems == 2

-----------------------------------------------------------------------------
(* Text and Python's built-ins on it *)

NL == "\n"

Rep(n, ch) == [k \in 1..n |-> ch]

Min(a, b) == IF a <= b THEN a ELSE b

DigitChar(d) ==
    CASE d = 0 -> "0" [] d = 1 -> "1" [] d = 2 -> "2" [] d = 3 -> "3"
      [] d = 4 -> "4" [] d = 5 -> "5" [] d = 6 -> "6" [] d = 7 -> "7"
      [] d = 8 -> "8" [] d = 9 -> "9"

RECURSIVE Digits(_)
Digits(n) ==
    IF n < 0 THEN <<"-">> \o Digits(0 - n)
    ELSE IF n < 10 THEN <<DigitChar(n)>>
    ELSE Digits(n \div 10) \o <<DigitChar(n % 10)>>

\* sep.join(parts)
RECURSIVE Join(_, _)
Join(sep, parts) ==
    IF parts = <<>> THEN <<>>
    ELSE IF Len(parts) = 1 THEN parts[1]
    ELSE parts[1] \o sep \o Join(sep, Tail(parts))

CommaSpace == <<",", " ">>

\* s.split("\n"): the pieces between the newlines, empty pieces kept
RECURSIVE SplitLines(_)
SplitLines(s) ==
    IF \A k \in 1..Len(s) : s[k] # NL THEN <<s>>
    ELSE LET p == CHOOSE k \in 1..Len(s) :
                      s[k] = NL /\ \A q \in 1..(k - 1) : s[q] # NL
         IN  <<SubSeq(s, 1, p - 1)>> \o SplitLines(SubSeq(s, p + 1, Len(s)))

ContainsNewline(s) == \E k \in 1..Len(s) : s[k] = NL

-----------------------------------------------------------------------------
(* Cell values: a string, an integer, or None *)

None == [t |-> "none", s |-> <<>>, n |-> 0]

StrV(s) == [t |-> "str", s |-> s, n |-> 0]

IntV(n) == [t |-> "int", s |-> <<>>, n |-> n]

\* Python truthiness of a cell value: None, "" and 0 are false
Truthy(v) ==
    CASE v.t = "none" -> FALSE
      [] v.t = "str" -> v.s # <<>>
      [] v.t = "int" -> v.n # 0

\* str(value)
Str(v) ==
    CASE v.t = "none" -> <<"N", "o", "n", "e">>
      [] v.t = "str" -> v.s
      [] v.t = "int" -> Digits(v.n)

\* A faulty YesNo: the two labels exchanged
YesNo_Swapped(b) == IF b THEN <<"N", "o">> ELSE <<"Y", "e", "s">>

\* "Yes" if flag else "No"
YesNo(b) == IF b THEN <<"Y", "e", "s">> ELSE <<"N", "o">>

-----------------------------------------------------------------------------
(* The record model: from_dict of OS, Software, Vulnerability, Device.      *)
(* A JSON mapping is a function on the keys it has; data[k] of an absent    *)
(* key raises KeyError(k).                                                  *)

OSKeys == <<"name", "version">>

SoftwareKeys == <<"name", "version", "vendor">>

VulnerabilityKeys ==
    <<"kasperskyID", "productName", "descriptionURL", "recommendedMajorPatch",
      "recommendedMinorPatch", "severityStr", "severity", "cve",
      "exploitExists", "malwareExists">>

DeviceKeys ==
    <<"name", "fqdn", "ipAddresses", "macAddresses", "owner", "os",
      "software", "vulnerabilities">>

NoKey == "-"

\* The first key of keys, in evaluation order, that data lacks (NoKey if none)
FirstMissing(keys, data) ==
    IF \A k \in 1..Len(keys) : keys[k] \in DOMAIN data THEN NoKey
    ELSE keys[CHOOSE k \in 1..Len(keys) :
                  /\ keys[k] \notin DOMAIN data
                  /\ \A q \in 1..(k - 1) : keys[q] \in DOMAIN data]

\* The first element of items, in order, whose from_dict raises (0 if none)
FirstBad(keys, items) ==
    IF \A j \in 1..Len(items) : FirstMissing(keys, items[j]) = NoKey THEN 0
    ELSE CHOOSE j \in 1..Len(items) :
             /\ FirstMissing(keys, items[j]) # NoKey
             /\ \A q \in 1..(j - 1) : FirstMissing(keys, items[q]) = NoKey

OS_from_dict(data) == [name |-> data["name"], version |-> data["version"]]

Software_from_dict(data) ==
    [name |-> data["name"], version |-> data["version"], vendor |-> data["vendor"]]

Vulnerability_from_dict(data) ==
    [kaspersky_id |-> data["kasperskyID"],
     product_name |-> data["productName"],
     description_url |-> data["descriptionURL"],
     recommended_major_patch |-> data["recommendedMajorPatch"],
     recommended_minor_patch |-> data["recommendedMinorPatch"],
     severity_str |-> data["severityStr"],
     severity |-> data["severity"],
     cve |-> data["cve"],
     exploit_exists |-> data["exploitExists"],
     malware_exists |-> data["malwareExists"]]

\* The key whose lookup makes Device.from_dict(data) raise KeyError, the
\* keyword arguments being evaluated in the order written (NoKey if none)
Device_KeyError(data) ==
    LET upto_os == FirstMissing(SubSeq(DeviceKeys, 1, 6), data)
    IN  IF upto_os # NoKey THEN upto_os
        ELSE IF FirstMissing(OSKeys, data["os"]) # NoKey
             THEN FirstMissing(OSKeys, data["os"])
        ELSE IF "software" \notin DOMAIN data THEN "software"
        ELSE IF FirstBad(SoftwareKeys, data["software"]) # 0
             THEN FirstMissing(SoftwareKeys,
                      data["software"][FirstBad(SoftwareKeys, data["software"])])
        ELSE IF "vulnerabilities" \notin DOMAIN data THEN "vulnerabilities"
        ELSE IF FirstBad(VulnerabilityKeys, data["vulnerabilities"]) # 0
             THEN FirstMissing(VulnerabilityKeys,
                      data["vulnerabilities"][FirstBad(VulnerabilityKeys,
                                                      data["vulnerabilities"])])
        ELSE NoKey

Device_from_dict(data) ==
    [name |-> data["name"],
     fqdn |-> data["fqdn"],
     ip_addresses |-> data["ipAddresses"],
     mac_addresses |-> data["macAddresses"],
     owner |-> data["owner"],
     os |-> OS_from_dict(data["os"]),
     software |-> [j \in 1..Len(data["software"]) |->
                      Software_from_dict(data["software"][j])],
     vulnerabilities |-> [j \in 1..Len(data["vulnerabilities"]) |->
                      Vulnerability_from_dict(data["vulnerabilities"][j])]]

-----------------------------------------------------------------------------
(* The input file response.json.  An array element is a mapping built for  *)
(* its position i in the array from a shape: the lengths n and m of its     *)
(* software and vulnerabilities lists, and the key it lacks, if any.  The    *)
(* texts vary with the position and the item index so that short, long,     *)
(* empty and multi-line values, empty lists, both booleans and the score 0  *)
(* all occur; the long texts are just under and over the length at which  *)
(* a column reaches its greatest width.                                      *)

SoftwareDict(i, j) ==
    [name |-> <<"s", "w">> \o Digits(j),
     version |-> IF j % 2 = 0 THEN <<"2", NL, "0", NL, "1">> ELSE <<"1", ".", "0">>,
     vendor |-> IF (i + j) % 2 = 1 THEN Rep(82, "v") ELSE <<"a", "c", "m", "e">>]

VulnerabilityDict(i, j) ==
    [kasperskyID |-> <<"K", "L", "A">> \o Digits(10 * i + j),
     productName |-> <<"p">> \o Digits(j),
     descriptionURL |-> IF j % 2 = 0 THEN Rep(95, "u") ELSE <<"u", "/">> \o Digits(i),
     recommendedMajorPatch |-> <<"1">>,
     recommendedMinorPatch |-> IF i % 2 = 0 THEN <<"0", NL, "b">> ELSE <<"0">>,
     severityStr |-> IF (i + j) % 2 = 0 THEN <<"H", "i", "g", "h">> ELSE <<"L", "o", "w">>,
     severity |-> ((i + j) % 3) * 5,
     cve |-> IF j % 2 = 1 THEN << <<"C", "V", "E", "-", "1">>, <<"C", "V", "E", "-", "2">> >>
             ELSE <<>>,
     exploitExists |-> (j % 2 = 1),
     malwareExists |-> (i % 2 = 1)]

DeviceDict(i, n, m) ==
    [name |-> IF i % 2 = 0 THEN <<"d", "b", NL>> \o Digits(i) ELSE <<"h">> \o Digits(i),
     fqdn |-> IF i % 2 = 1 THEN << <<"h", ".", "l", "a", "n">>, <<"h", ".", "c", "o">> >>
              ELSE <<>>,
     ipAddresses |-> << <<"1", "0", ".", "0", ".", "0", ".">> \o Digits(i) >>,
     macAddresses |-> IF i % 2 = 0 THEN << <<"a", "a", ":", "0", "1">>, <<"b", "b">>, <<"c">> >>
                      ELSE <<>>,
     owner |-> IF i % 2 = 0 THEN Rep(81, "o") ELSE <<"a", "l", "i", "c", "e">>,
     os |-> [name |-> <<"L", "i", "n", "u", "x">>, version |-> <<"5", ".", "1", "0">>],
     software |-> [j \in 1..n |-> SoftwareDict(i, j)],
     vulnerabilities |-> [j \in 1..m |-> VulnerabilityDict(i, j)]]

\* The mapping d without the key k
Without(d, k) == [x \in (DOMAIN d) \ {k} |-> d[x]]

Drops == {"name", "vulnerabilities", "os", "os.version", "software.vendor",
          "vulnerabilities.malwareExists"}

Shapes ==
    [n : 0..MaxItems, m : 0..MaxItems, drop : {NoKey}]
        \cup [n : {1}, m : {1}, drop : Drops]

Element(i, shape) ==
    LET d == DeviceDict(i, shape.n, shape.m)
    IN  CASE shape.drop = NoKey -> d
          [] shape.drop \in {"name", "vulnerabilities", "os"} -> Without(d, shape.drop)
          [] shape.drop = "os.version" ->
                 [d EXCEPT !["os"] = Without(@, "version")]
          [] shape.drop = "software.vendor" ->
                 [d EXCEPT !["software"] = [@ EXCEPT ![shape.n] = Without(@, "vendor")]]
          [] shape.drop = "vulnerabilities.malwareExists" ->
                 [d EXCEPT !["vulnerabilities"] =
                     [@ EXCEPT ![shape.m] = Without(@, "malwareExists")]]

ShapeLists == UNION {[1..len -> Shapes] : len \in 0..MaxDevices}

\* What is at the path response.json: nothing, bytes that are not UTF-8,
\* text that is not JSON, or a JSON array of mappings
Files ==
    {[kind |-> k, data |-> <<>>] : k \in {"missing", "undecodable", "malformed"}}
        \cup {[kind |-> "json", data |-> [i \in 1..Len(sl) |-> Element(i, sl[i])]] :
                  sl \in ShapeLists}

-----------------------------------------------------------------------------
(* The workbook: a sequence of worksheets.  A worksheet has a title, its    *)
(* cells (created by the first ws.cell(row, column) that names them), its   *)
(* merged ranges, and the column widths and row heights that were set.      *)
(* Fonts, alignments and borders are not part of the model; a cell that     *)
(* the code touches only to style it is created with the value None.        *)

EmptySheet(title) ==
    [title |-> title, cells |-> <<>>, merged |-> {}, width |-> <<>>, height |-> <<>>]

\* Workbook(): a new workbook holds one sheet, titled "Sheet"
Workbook == <<EmptySheet("Sheet")>>

SheetNames(w) == [k \in 1..Len(w) |-> w[k].title]

\* A faulty Remove: the sheet stays
Remove_Nothing(w, title) == w

Remove(w, title) == SelectSeq(w, LAMBDA s : s.title # title)

CreateSheet(w, title) == Append(w, EmptySheet(title))

SheetIndex(w, title) == CHOOSE k \in 1..Len(w) : w[k].title = title

\* ws.cell(row=r, column=c, value=v) for c = 1..Len(values), v = values[c]:
\* the cell is created if absent, and its value set unless v is None
WriteRow(ws, r, values) ==
    LET old == ws.cells
        new == {<<r, c>> : c \in 1..Len(values)}
        row == [p \in new |->
                   IF values[p[2]] # None THEN values[p[2]]
                   ELSE IF p \in DOMAIN old THEN old[p]
                   ELSE None]
    IN  [ws EXCEPT !.cells = row @@ old]

MergeCells(ws, start_row, end_row) ==
    [ws EXCEPT !.merged = @ \cup {[start_row |-> start_row, start_column |-> 1,
                                   end_row |-> end_row, end_column |-> 1]}]

\* The greatest member of a finite set of naturals, 0 for the empty set
Greatest(S) == IF S = {} THEN 0 ELSE CHOOSE x \in S : \A y \in S : y <= x

\* ws.max_row and ws.max_column
MaxRow(ws) == Greatest({p[1] : p \in DOMAIN ws.cells})

MaxCol(ws) == Greatest({p[2] : p \in DOMAIN ws.cells})

Value(ws, r, c) == IF <<r, c>> \in DOMAIN ws.cells THEN ws.cells[<<r, c>>] ELSE None

-----------------------------------------------------------------------------
(* save_to_excel: the rows of the three sheets *)

devices_headers ==
    << <<"N","a","m","e">>,
       <<"F","Q","D","N">>,
       <<"I","P"," ","A","d","d","r","e","s","s","e","s">>,
       <<"M","A","C"," ","A","d","d","r","e","s","s","e","s">>,
       <<"O","w","n","e","r">>,
       <<"O","S"," ","N","a","m","e">>,
       <<"O","S"," ","V","e","r","s","i","o","n">> >>

\* "?" stands for each U+FFFD character of the source's header texts
software_headers ==
    << <<"?","?">>,
       <<"S","o","f","t","w","a","r","e"," ","N","a","m","e">>,
       <<"?","?","?","?","?","?">>,
       <<"?","?","?","?","?","?">> >>

vuln_headers ==
    << <<"?","?">>,
       <<"K","a","s","p","e","r","s","k","y"," ","I","D">>,
       <<"P","r","o","d","u","c","t"," ","N","a","m","e">>,
       <<"S","e","v","e","r","i","t","y">>,
       <<"S","e","v","e","r","i","t","y"," ","L","e","v","e","l">>,
       <<"C","V","E"," ","I","D","s">>,
       <<"E","x","p","l","o","i","t"," ","E","x","i","s","t","s">>,
       <<"M","a","l","w","a","r","e"," ","E","x","i","s","t","s">>,
       <<"R","e","c","o","m","m","e","n","d","e","d"," ","M","a","j","o","r"," ","P","a","t","c","h">>,
       <<"R","e","c","o","m","m","e","n","d","e","d"," ","M","i","n","o","r"," ","P","a","t","c","h">>,
       <<"D","e","s","c","r","i","p","t","i","o","n"," ","U","R","L">> >>

\* for col_num, header in enumerate(headers, 1): ws.cell(row=1, ...)
WriteHeader(ws, headers) == WriteRow(ws, 1, [c \in 1..Len(headers) |-> StrV(headers[c])])

\* A faulty Enumerate: the counter never advances
Enumerate_Stuck(start, k) == start

\* The counter that enumerate(seq, start) pairs with the k-th element of seq
Enumerate(start, k) == start + k - 1

\* The body of the Device sheet's loop: the row of one device
DeviceRow(device) ==
    << StrV(device.name),
       StrV(Join(CommaSpace, device.fqdn)),
       StrV(Join(CommaSpace, device.ip_addresses)),
       StrV(Join(CommaSpace, device.mac_addresses)),
       StrV(device.owner),
       StrV(device.os.name),
       StrV(device.os.version) >>

\* The row of one software item, at row_num of the block that starts at start_row
SoftwareRow(device, software, row_num, start_row) ==
    << StrV(IF row_num = start_row THEN device.name ELSE <<>>),
       StrV(software.name),
       StrV(software.version),
       StrV(software.vendor) >>

\* The row of one vulnerability, at row_num of the block that starts at start_row
VulnerabilityRow(device, vuln, row_num, start_row) ==
    << StrV(IF row_num = start_row THEN device.name ELSE <<>>),
       StrV(vuln.kaspersky_id),
       StrV(vuln.product_name),
       IntV(vuln.severity),
       StrV(vuln.severity_str),
       StrV(Join(CommaSpace, vuln.cve)),
       StrV(YesNo(vuln.exploit_exists)),
       StrV(YesNo(vuln.malware_exists)),
       StrV(vuln.recommended_major_patch),
       StrV(vuln.recommended_minor_patch),
       StrV(vuln.description_url) >>

\* A faulty NameOnlyRow: the name written to every column
NameOnlyRow_NameInEveryColumn(device, ncols) == [c \in 1..ncols |-> StrV(device.name)]

\* The row of a device with no item: the name, and ncols - 1 cells that are
\* touched only to give them a border
NameOnlyRow(device, ncols) == [c \in 1..ncols |-> IF c = 1 THEN StrV(device.name) ELSE None]

\* A faulty MergeBlock: a block of one row is merged as well
MergeBlock_AlsoSingleRows(ws, start_row, row_num) ==
    IF row_num > start_row THEN MergeCells(ws, start_row, row_num - 1) ELSE ws

\* if row_num > start_row + 1: ws.merge_cells(start_row, 1, row_num - 1, 1)
MergeBlock(ws, start_row, row_num) ==
    IF row_num > start_row + 1 THEN MergeCells(ws, start_row, row_num - 1) ELSE ws

\* for software in device.software, entered with row_num = start_row + j - 1
RECURSIVE SoftwareItems(_, _, _, _)
SoftwareItems(ws, device, start_row, j) ==
    IF j > Len(device.software) THEN ws
    ELSE SoftwareItems(
             WriteRow(ws, start_row + j - 1,
                      SoftwareRow(device, device.software[j], start_row + j - 1, start_row)),
             device, start_row, j + 1)

\* One iteration of "for device in devices" of the Software sheet
SoftwareBlock(ws, device, start_row) ==
    IF Len(device.software) = 0
    THEN WriteRow(ws, start_row, NameOnlyRow(device, 4))
    ELSE MergeBlock(SoftwareItems(ws, device, start_row, 1),
                    start_row, start_row + Len(device.software))

\* A faulty SoftwareNextRow: a device with no software takes no row
SoftwareNextRow_NoRowForEmpty(device, start_row) == start_row + Len(device.software)

\* row_num after that iteration
SoftwareNextRow(device, start_row) ==
    IF Len(device.software) = 0 THEN start_row + 1
    ELSE start_row + Len(device.software)

\* for vuln in device.vulnerabilities, entered with row_num = start_row + j - 1
RECURSIVE VulnerabilityItems(_, _, _, _)
VulnerabilityItems(ws, device, start_row, j) ==
    IF j > Len(device.vulnerabilities) THEN ws
    ELSE VulnerabilityItems(
             WriteRow(ws, start_row + j - 1,
                      VulnerabilityRow(device, device.vulnerabilities[j],
                                       start_row + j - 1, start_row)),
             device, start_row, j + 1)

\* One iteration of "for device in devices" of the Vulnerability sheet
VulnerabilityBlock(ws, device, start_row) ==
    IF Len(device.vulnerabilities) = 0
    THEN WriteRow(ws, start_row, NameOnlyRow(device, 11))
    ELSE MergeBlock(VulnerabilityItems(ws, device, start_row, 1),
                    start_row, start_row + Len(device.vulnerabilities))

\* row_num after that iteration
VulnerabilityNextRow(device, start_row) ==
    IF Len(device.vulnerabilities) = 0 THEN start_row + 1
    ELSE start_row + Len(device.vulnerabilities)

-----------------------------------------------------------------------------
(* save_to_excel: column widths and row heights *)

MAX_COLUMN_WIDTH == 100

\* ws.columns: column by column, the cells of rows 1..max_row
Columns(ws) == [c \in 1..MaxCol(ws) |-> [r \in 1..MaxRow(ws) |-> Value(ws, r, c)]]

\* ws.iter_rows(): row by row, the cells of columns 1..max_column
Rows(ws) == [r \in 1..MaxRow(ws) |-> [c \in 1..MaxCol(ws) |-> Value(ws, r, c)]]

\* for cell in col: the running max_length, from the r-th cell on
RECURSIVE ColumnMaxLength(_, _, _)
ColumnMaxLength(col, r, max_length) ==
    IF r > Len(col) THEN max_length
    ELSE ColumnMaxLength(col, r + 1,
             IF Truthy(col[r]) /\ Len(Str(col[r])) > max_length THEN Len(Str(col[r]))
             ELSE max_length)

\* A faulty AdjustedWidth: no upper limit
AdjustedWidth_Uncapped(max_length) == (max_length + 2) * 12

\* min((max_length + 2) * 1.2, MAX_COLUMN_WIDTH), in tenths
AdjustedWidth(max_length) == Min((max_length + 2) * 12, MAX_COLUMN_WIDTH * 10)

\* for cell in row: the running max_lines, from the c-th cell on
RECURSIVE RowMaxLines(_, _, _)
RowMaxLines(row, c, max_lines) ==
    IF c > Len(row) THEN max_lines
    ELSE LET lines == Len(SplitLines(Str(row[c])))
         IN  RowMaxLines(row, c + 1,
                 IF Truthy(row[c]) /\ ContainsNewline(Str(row[c])) /\ lines > max_lines
                 THEN lines
                 ELSE max_lines)

\* A faulty RowHeight: 15 per newline, not per line
RowHeight_PerNewline(max_lines) == 15 * (max_lines - 1)

\* 15 * max_lines
RowHeight(max_lines) == 15 * max_lines

\* The body of "for sheet in wb.sheetnames": every column's width, and the
\* height of every row with max_lines > 1
SizeSheet(ws) ==
    LET max_lines == [r \in 1..MaxRow(ws) |-> RowMaxLines(Rows(ws)[r], 1, 1)]
    IN  [ws EXCEPT
            !.width = [c \in 1..MaxCol(ws) |->
                          AdjustedWidth(ColumnMaxLength(Columns(ws)[c], 1, 0))],
            !.height = [r \in {x \in 1..MaxRow(ws) : max_lines[x] > 1} |->
                           RowHeight(max_lines[r])]]

-----------------------------------------------------------------------------
(* The run of main() *)

VARIABLES
    pc,        \* where the run is
    file,      \* what is at response.json
    data,      \* main's data, the parsed array
    devices,   \* the Device records converted so far
    wb,        \* save_to_excel's workbook, in memory
    idx,       \* the index of the next element of the loop the run is in
    row_num,   \* save_to_excel's row_num
    out,       \* the file devices_grouped_rows.xlsx
    stdout,    \* the lines printed
    exc        \* the exception that left main, if any

vars == <<pc, file, data, devices, wb, idx, row_num, out, stdout, exc>>

NoException == [type |-> "none", key |-> NoKey]

NoFile == [exists |-> FALSE, sheets |-> <<>>, writes |-> 0]

Init ==
    /\ pc = "main"
    /\ file \in Files
    /\ data = <<>>
    /\ devices = <<>>
    /\ wb = <<>>
    /\ idx = 1
    /\ row_num = 0
    /\ out = NoFile
    /\ stdout = <<>>
    /\ exc = NoException

\* wb with its sheet of that title replaced by ws
WithSheet(w, title, ws) == [w EXCEPT ![SheetIndex(w, title)] = ws]

Sheet(w, title) == w[SheetIndex(w, title)]

\* try: open('response.json', 'r', encoding='utf-8'); data = json.load(f)
\* with the two except clauses; any other exception leaves main
LoadInput ==
    /\ pc = "main"
    /\ \/ /\ file.kind = "missing"
          /\ stdout' = Append(stdout, "Error: File 'response.json' not found.")
          /\ pc' = "returned"
          /\ UNCHANGED <<data, exc>>
       \/ /\ file.kind = "malformed"
          /\ stdout' = Append(stdout, "Error: Invalid JSON format in 'response.json'.")
          /\ pc' = "returned"
          /\ UNCHANGED <<data, exc>>
       \/ /\ file.kind = "undecodable"
          /\ exc' = [type |-> "UnicodeDecodeError", key |-> NoKey]
          /\ pc' = "raised"
          /\ UNCHANGED <<data, stdout>>
       \/ /\ file.kind = "json"
          /\ data' = file.data
          /\ pc' = "convert"
          /\ UNCHANGED <<stdout, exc>>
    /\ idx' = 1
    /\ UNCHANGED <<file, devices, wb, row_num, out>>

\* A faulty ConvertDevice: an element that lacks a key is passed over
ConvertDevice_SkipsBad ==
    /\ pc = "convert"
    /\ idx <= Len(data)
    /\ devices' = IF Device_KeyError(data[idx]) # NoKey THEN devices
                  ELSE Append(devices, Device_from_dict(data[idx]))
    /\ idx' = idx + 1
    /\ UNCHANGED <<pc, exc, file, data, wb, row_num, out, stdout>>

\* One element of [Device.from_dict(item) for item in data]
ConvertDevice ==
    /\ pc = "convert"
    /\ idx <= Len(data)
    /\ IF Device_KeyError(data[idx]) # NoKey
       THEN /\ exc' = [type |-> "KeyError", key |-> Device_KeyError(data[idx])]
            /\ pc' = "raised"
            /\ UNCHANGED <<devices, idx>>
       ELSE /\ devices' = Append(devices, Device_from_dict(data[idx]))
            /\ idx' = idx + 1
            /\ UNCHANGED <<pc, exc>>
    /\ UNCHANGED <<file, data, wb, row_num, out, stdout>>

\* The sheets of the workbook save_to_excel starts from
NewWorkbook ==
    LET w == Workbook
        w1 == IF \E k \in 1..Len(w) : w[k].title = "Sheet" THEN Remove(w, "Sheet") ELSE w
    IN  CreateSheet(CreateSheet(CreateSheet(w1, "Device"), "Software"), "Vulnerability")

\* The call save_to_excel(devices, ...), up to the three create_sheet
CreateWorkbook ==
    /\ pc = "convert"
    /\ idx > Len(data)
    /\ wb' = NewWorkbook
    /\ pc' = "device_header"
    /\ UNCHANGED <<file, data, devices, idx, row_num, out, stdout, exc>>

WriteDeviceHeader ==
    /\ pc = "device_header"
    /\ wb' = WithSheet(wb, "Device", WriteHeader(Sheet(wb, "Device"), devices_headers))
    /\ idx' = 1
    /\ pc' = "device_rows"
    /\ UNCHANGED <<file, data, devices, row_num, out, stdout, exc>>

\* One iteration of "for row_num, device in enumerate(devices, 2)"
WriteDeviceRow ==
    /\ pc = "device_rows"
    /\ idx <= Len(devices)
    /\ row_num' = Enumerate(2, idx)
    /\ wb' = WithSheet(wb, "Device",
                 WriteRow(Sheet(wb, "Device"), row_num', DeviceRow(devices[idx])))
    /\ idx' = idx + 1
    /\ UNCHANGED <<pc, file, data, devices, out, stdout, exc>>

\* The Software sheet's header, and row_num = 2
WriteSoftwareHeader ==
    /\ pc = "device_rows"
    /\ idx > Len(devices)
    /\ wb' = WithSheet(wb, "Software", WriteHeader(Sheet(wb, "Software"), software_headers))
    /\ idx' = 1
    /\ row_num' = 2
    /\ pc' = "software_rows"
    /\ UNCHANGED <<file, data, devices, out, stdout, exc>>

WriteSoftwareBlock ==
    /\ pc = "software_rows"
    /\ idx <= Len(devices)
    /\ wb' = WithSheet(wb, "Software",
                 SoftwareBlock(Sheet(wb, "Software"), devices[idx], row_num))
    /\ row_num' = SoftwareNextRow(devices[idx], row_num)
    /\ idx' = idx + 1
    /\ UNCHANGED <<pc, file, data, devices, out, stdout, exc>>

\* The Vulnerability sheet's header, and row_num = 2
WriteVulnHeader ==
    /\ pc = "software_rows"
    /\ idx > Len(devices)
    /\ wb' = WithSheet(wb, "Vulnerability",
                 WriteHeader(Sheet(wb, "Vulnerability"), vuln_headers))
    /\ idx' = 1
    /\ row_num' = 2
    /\ pc' = "vuln_rows"
    /\ UNCHANGED <<file, data, devices, out, stdout, exc>>

WriteVulnBlock ==
    /\ pc = "vuln_rows"
    /\ idx <= Len(devices)
    /\ wb' = WithSheet(wb, "Vulnerability",
                 VulnerabilityBlock(Sheet(wb, "Vulnerability"), devices[idx], row_num))
    /\ row_num' = VulnerabilityNextRow(devices[idx], row_num)
    /\ idx' = idx + 1
    /\ UNCHANGED <<pc, file, data, devices, out, stdout, exc>>

\* The rows are written: on to "for sheet in wb.sheetnames"
StartSizing ==
    /\ pc = "vuln_rows"
    /\ idx > Len(devices)
    /\ idx' = 1
    /\ pc' = "sizing"
    /\ UNCHANGED <<file, data, devices, wb, row_num, out, stdout, exc>>

\* One iteration of "for sheet in wb.sheetnames"
SizeNextSheet ==
    /\ pc = "sizing"
    /\ idx <= Len(wb)
    /\ wb' = [wb EXCEPT ![idx] = SizeSheet(@)]
    /\ idx' = idx + 1
    /\ UNCHANGED <<pc, file, data, devices, row_num, out, stdout, exc>>

\* What wb.save(output_file) leaves on disk
Saved(w, before) == [exists |-> TRUE, sheets |-> w, writes |-> before.writes + 1]

\* wb.save(output_file) and save_to_excel's print
SaveWorkbook ==
    /\ pc = "sizing"
    /\ idx > Len(wb)
    /\ out' = Saved(wb, out)
    /\ stdout' = Append(stdout, "Data successfully saved to devices_grouped_rows.xlsx")
    /\ pc' = "saved"
    /\ UNCHANGED <<file, data, devices, wb, idx, row_num, exc>>

\* main's last print, and its return
Report ==
    /\ pc = "saved"
    /\ stdout' = Append(stdout, "Processed " \o ToString(Len(devices))
                                    \o " devices. Results saved to devices_grouped_rows.xlsx")
    /\ pc' = "returned"
    /\ UNCHANGED <<file, data, devices, wb, idx, row_num, out, exc>>

Next ==
    \/ LoadInput
    \/ ConvertDevice
    \/ CreateWorkbook
    \/ WriteDeviceHeader
    \/ WriteDeviceRow
    \/ WriteSoftwareHeader
    \/ WriteSoftwareBlock
    \/ WriteVulnHeader
    \/ WriteVulnBlock
    \/ StartSizing
    \/ SizeNextSheet
    \/ SaveWorkbook
    \/ Report

Spec == Init /\ [][Next]_vars

-----------------------------------------------------------------------------
(* What the properties below speak of: the input array as it is in the     *)
(* file, and the workbook as it is in the saved file.                       *)

Input == file.data

SavedSheet(title) == Sheet(out.sheets, title)

InputName(i) == StrV(Input[i]["name"])

SoftwareCount(i) == Len(Input[i]["software"])

VulnerabilityCount(i) == Len(Input[i]["vulnerabilities"])

\* The rows a device with n items takes
BlockRows(n) == IF n = 0 THEN 1 ELSE n

\* The first row of the block of device i in the Software sheet: row 2 for
\* the first device, then the row after the previous device's block
RECURSIVE SoftwareStart(_)
SoftwareStart(i) ==
    IF i = 1 THEN 2 ELSE SoftwareStart(i - 1) + BlockRows(SoftwareCount(i - 1))

RECURSIVE VulnerabilityStart(_)
VulnerabilityStart(i) ==
    IF i = 1 THEN 2 ELSE VulnerabilityStart(i - 1) + BlockRows(VulnerabilityCount(i - 1))

Blank(v) == v = None \/ v = StrV(<<>>)

\* The merged ranges of ws that hold row r
RangesAt(ws, r) == {m \in ws.merged : m.start_row <= r /\ r <= m.end_row}

\* Column 1 of row r with merges resolved: the value of the first cell of
\* the merged range that holds the row, if one does
Resolved(ws, r) ==
    IF RangesAt(ws, r) = {} THEN Value(ws, r, 1)
    ELSE Value(ws, (CHOOSE m \in RangesAt(ws, r) : TRUE).start_row, 1)

\* Row r is past the block of device i: past the last row, or the first row
\* of the next device
BlockEndsBefore(ws, i, r) ==
    IF i = Len(Input) THEN MaxRow(ws) = r - 1
    ELSE Value(ws, r, 1) = InputName(i + 1)

-----------------------------------------------------------------------------
\* C1: in the saved Device sheet row 1 is the header and row i+1 is the row
\* of the i-th element of the input array, for every i, and there are no
\* other rows: as many data rows as elements, in input order.
C1_DeviceRowPerDevice ==
    out.exists =>
        LET ws == SavedSheet("Device")
        IN  /\ MaxRow(ws) = Len(Input) + 1
            /\ \A c \in 1..7 : Value(ws, 1, c) = StrV(devices_headers[c])
            /\ \A i \in 1..Len(Input) :
                   /\ Value(ws, i + 1, 1) = InputName(i)
                   /\ Value(ws, i + 1, 5) = StrV(Input[i]["owner"])
                   /\ \A c \in 1..7 : <<i + 1, c>> \in DOMAIN ws.cells

C1_Witness == out.exists /\ Len(Input) >= 2

\* C2: a device with no software has exactly one row in the Software sheet,
\* with its name in column 1 and no value in columns 2-4, and no merged
\* range holds that row; the same in the Vulnerability sheet, columns 2-11,
\* for a device with no vulnerabilities.
C2_EmptyListOneRow ==
    out.exists =>
        /\ \A i \in 1..Len(Input) : SoftwareCount(i) = 0 =>
               LET ws == SavedSheet("Software")
                   r == SoftwareStart(i)
               IN  /\ {x \in 2..MaxRow(ws) : Value(ws, x, 1) = InputName(i)} = {r}
                   /\ \A c \in 2..4 : <<r, c>> \in DOMAIN ws.cells /\ Value(ws, r, c) = None
                   /\ BlockEndsBefore(ws, i, r + 1)
                   /\ RangesAt(ws, r) = {}
        /\ \A i \in 1..Len(Input) : VulnerabilityCount(i) = 0 =>
               LET ws == SavedSheet("Vulnerability")
                   r == VulnerabilityStart(i)
               IN  /\ {x \in 2..MaxRow(ws) : Value(ws, x, 1) = InputName(i)} = {r}
                   /\ \A c \in 2..11 : <<r, c>> \in DOMAIN ws.cells /\ Value(ws, r, c) = None
                   /\ BlockEndsBefore(ws, i, r + 1)
                   /\ RangesAt(ws, r) = {}

C2_Witness ==
    /\ out.exists
    /\ \E i \in 1..Len(Input) : SoftwareCount(i) = 0 /\ VulnerabilityCount(i) > 0
    /\ \E i \in 1..Len(Input) : VulnerabilityCount(i) = 0 /\ SoftwareCount(i) > 0

\* The block of n rows from row s of ws is the block of device i: one row
\* per item, the j-th holding the j-th item's text in column 2; the name in
\* column 1 of the first row only, the rest of column 1 blank; column 1 is
\* merged over exactly rows s..s+n-1 if n > 1 and not merged at all if
\* n = 1; every row resolves to the device's name.
IsItemBlock(ws, i, s, n, itemText) ==
    /\ \A j \in 1..n : Value(ws, s + j - 1, 2) = StrV(itemText[j])
    /\ Value(ws, s, 1) = InputName(i)
    /\ \A j \in 2..n : Blank(Value(ws, s + j - 1, 1))
    /\ BlockEndsBefore(ws, i, s + n)
    /\ \A j \in 1..n :
           RangesAt(ws, s + j - 1) =
               IF n > 1 THEN {[start_row |-> s, start_column |-> 1,
                               end_row |-> s + n - 1, end_column |-> 1]}
               ELSE {}
    /\ \A j \in 1..n : Resolved(ws, s + j - 1) = InputName(i)

\* C3: a device with N >= 1 software items (vulnerabilities) has exactly N
\* consecutive rows in the Software (Vulnerability) sheet, one per item in
\* input order, named in the first row only, merged in column 1 over
\* exactly those rows iff N > 1, every row resolving to the device's name.
C3_ItemBlock ==
    out.exists =>
        /\ \A i \in 1..Len(Input) : SoftwareCount(i) >= 1 =>
               IsItemBlock(SavedSheet("Software"), i, SoftwareStart(i), SoftwareCount(i),
                           [j \in 1..SoftwareCount(i) |-> Input[i]["software"][j]["name"]])
        /\ \A i \in 1..Len(Input) : VulnerabilityCount(i) >= 1 =>
               IsItemBlock(SavedSheet("Vulnerability"), i, VulnerabilityStart(i),
                           VulnerabilityCount(i),
                           [j \in 1..VulnerabilityCount(i) |->
                               Input[i]["vulnerabilities"][j]["kasperskyID"]])

C3_Witness ==
    /\ out.exists
    /\ \E i \in 1..Len(Input) : SoftwareCount(i) = 1 /\ VulnerabilityCount(i) > 1
    /\ \E i \in 1..Len(Input) : SoftwareCount(i) > 1 /\ VulnerabilityCount(i) = 1

\* The blocks of ws, device i's being the count[i]-or-one rows from
\* start[i], tile the rows from 2 on in input order, and every merged range
\* lies in one block and meets no other merged range.
IsLaidOut(ws, start, count) ==
    /\ \A i \in 1..Len(Input) :
           /\ Value(ws, start[i], 1) = InputName(i)
           /\ \A r \in (start[i] + 1)..(start[i] + BlockRows(count[i]) - 1) :
                  Blank(Value(ws, r, 1))
    /\ MaxRow(ws) = 1 + (IF Len(Input) = 0 THEN 0
                         ELSE start[Len(Input)] + BlockRows(count[Len(Input)]) - 2)
    /\ \A m \in ws.merged :
           /\ m.start_column = 1 /\ m.end_column = 1 /\ m.start_row <= m.end_row
           /\ \E i \in 1..Len(Input) :
                  /\ start[i] <= m.start_row
                  /\ m.end_row <= start[i] + BlockRows(count[i]) - 1
           /\ \A m2 \in ws.merged :
                  m2 # m => (m2.end_row < m.start_row \/ m.end_row < m2.start_row)

\* C4: in the Software and Vulnerability sheets the devices' blocks are
\* disjoint, contiguous and in input order from row 2, a device with no
\* item taking one row, the data rows numbering the sum of max(1, items),
\* and every merged range lies within one block, no two overlapping.
C4_BlocksLaidOut ==
    out.exists =>
        /\ IsLaidOut(SavedSheet("Software"),
                     [i \in 1..Len(Input) |-> SoftwareStart(i)],
                     [i \in 1..Len(Input) |-> SoftwareCount(i)])
        /\ IsLaidOut(SavedSheet("Vulnerability"),
                     [i \in 1..Len(Input) |-> VulnerabilityStart(i)],
                     [i \in 1..Len(Input) |-> VulnerabilityCount(i)])

C4_Witness ==
    /\ out.exists
    /\ Len(Input) >= 2
    /\ SoftwareCount(1) = 0 /\ SoftwareCount(2) > 1
    /\ VulnerabilityCount(1) > 1 /\ VulnerabilityCount(2) > 1

-----------------------------------------------------------------------------
\* The lengths of the string forms of the non-empty values of column c
ColumnLengths(ws, c) ==
    {Len(Str(Value(ws, r, c))) : r \in {x \in 1..MaxRow(ws) : ~Blank(Value(ws, x, c))}}

ColumnCount(title) ==
    CASE title = "Device" -> 7 [] title = "Software" -> 4 [] title = "Vulnerability" -> 11

\* C5: in the saved workbook every column of every sheet has the width
\* min((maxLength + 2) * 1.2, 100), maxLength being the greatest length of
\* the string form of the column's non-empty values, header included (here
\* in tenths: min((maxLength + 2) * 12, 1000)); so no width exceeds 100.
C5_ColumnWidths ==
    out.exists =>
        \A k \in 1..Len(out.sheets) :
            LET ws == out.sheets[k]
            IN  /\ DOMAIN ws.width = 1..ColumnCount(ws.title)
                /\ \A c \in 1..ColumnCount(ws.title) :
                       LET exact == (Greatest(ColumnLengths(ws, c)) + 2) * 12
                       IN  /\ ws.width[c] = IF exact <= 1000 THEN exact ELSE 1000
                           /\ ws.width[c] <= 1000

\* Some column is at the cap, one just under it, and a severity of 0, which
\* the code passes over as false, is in the Vulnerability sheet
C5_Witness ==
    /\ out.exists
    /\ \E k \in 1..Len(out.sheets) : \E c \in DOMAIN out.sheets[k].width :
           /\ out.sheets[k].width[c] = 1000
           /\ Greatest(ColumnLengths(out.sheets[k], c)) > 82
    /\ \E k \in 1..Len(out.sheets) : \E c \in DOMAIN out.sheets[k].width :
           out.sheets[k].width[c] = 996
    /\ \E r \in 2..MaxRow(SavedSheet("Vulnerability")) :
           Value(SavedSheet("Vulnerability"), r, 4) = IntV(0)

-----------------------------------------------------------------------------
\* Where the k-th part starts in the parts joined by a two-character
\* separator, less one
RECURSIVE Offset(_, _)
Offset(parts, k) == IF k = 1 THEN 0 ELSE Offset(parts, k - 1) + Len(parts[k - 1]) + 2

\* v is the text of the parts in order with ", " between neighbours,
\* and the empty text if there is no part
IsJoined(v, parts) ==
    /\ v.t = "str"
    /\ Len(v.s) = IF parts = <<>> THEN 0
                  ELSE Offset(parts, Len(parts)) + Len(parts[Len(parts)])
    /\ \A k \in 1..Len(parts) :
           LET from == Offset(parts, k)
           IN  /\ SubSeq(v.s, from + 1, from + Len(parts[k])) = parts[k]
               /\ k < Len(parts) =>
                      /\ v.s[from + Len(parts[k]) + 1] = ","
                      /\ v.s[from + Len(parts[k]) + 2] = " "

IsYesNo(v, flag) ==
    /\ v \in {StrV(<<"Y", "e", "s">>), StrV(<<"N", "o">>)}
    /\ (v = StrV(<<"Y", "e", "s">>)) <=> flag

\* C8: every data cell of the saved workbook holds its source field of the
\* input verbatim, in its fixed column: the scalar fields unchanged, the
\* list fields as their elements in order joined by ", ", and the
\* exploit-exists and malware-exists cells "Yes" or "No", "Yes" iff true.
C8_CellsVerbatim ==
    out.exists =>
        \A i \in 1..Len(Input) :
            LET d == Input[i]
                dws == SavedSheet("Device")
                sws == SavedSheet("Software")
                vws == SavedSheet("Vulnerability")
            IN  /\ Value(dws, i + 1, 1) = StrV(d["name"])
                /\ IsJoined(Value(dws, i + 1, 2), d["fqdn"])
                /\ IsJoined(Value(dws, i + 1, 3), d["ipAddresses"])
                /\ IsJoined(Value(dws, i + 1, 4), d["macAddresses"])
                /\ Value(dws, i + 1, 5) = StrV(d["owner"])
                /\ Value(dws, i + 1, 6) = StrV(d["os"]["name"])
                /\ Value(dws, i + 1, 7) = StrV(d["os"]["version"])
                /\ Value(sws, SoftwareStart(i), 1) = StrV(d["name"])
                /\ \A j \in 1..SoftwareCount(i) :
                       LET r == SoftwareStart(i) + j - 1
                           s == d["software"][j]
                       IN  /\ Value(sws, r, 2) = StrV(s["name"])
                           /\ Value(sws, r, 3) = StrV(s["version"])
                           /\ Value(sws, r, 4) = StrV(s["vendor"])
                /\ Value(vws, VulnerabilityStart(i), 1) = StrV(d["name"])
                /\ \A j \in 1..VulnerabilityCount(i) :
                       LET r == VulnerabilityStart(i) + j - 1
                           v == d["vulnerabilities"][j]
                       IN  /\ Value(vws, r, 2) = StrV(v["kasperskyID"])
                           /\ Value(vws, r, 3) = StrV(v["productName"])
                           /\ Value(vws, r, 4) = IntV(v["severity"])
                           /\ Value(vws, r, 5) = StrV(v["severityStr"])
                           /\ IsJoined(Value(vws, r, 6), v["cve"])
                           /\ IsYesNo(Value(vws, r, 7), v["exploitExists"])
                           /\ IsYesNo(Value(vws, r, 8), v["malwareExists"])
                           /\ Value(vws, r, 9) = StrV(v["recommendedMajorPatch"])
                           /\ Value(vws, r, 10) = StrV(v["recommendedMinorPatch"])
                           /\ Value(vws, r, 11) = StrV(v["descriptionURL"])

\* Lists of no, one and several elements are joined, and a vulnerability
\* with an exploit and no malware and one with malware and no exploit are
\* rendered
C8_Witness ==
    /\ out.exists
    /\ \E i \in 1..Len(Input) : Len(Input[i]["fqdn"]) = 0 /\ Len(Input[i]["macAddresses"]) > 2
    /\ \E i \in 1..Len(Input) : Len(Input[i]["ipAddresses"]) = 1
    /\ \E i \in 1..Len(Input) : \E j \in 1..VulnerabilityCount(i) :
           LET v == Input[i]["vulnerabilities"][j]
           IN  v["exploitExists"] /\ ~v["malwareExists"] /\ Len(v["cve"]) = 2
    /\ \E i \in 1..Len(Input) : \E j \in 1..VulnerabilityCount(i) :
           LET v == Input[i]["vulnerabilities"][j]
           IN  ~v["exploitExists"] /\ v["malwareExists"]

-----------------------------------------------------------------------------
HasNewline(v) == v.t = "str" /\ \E k \in 1..Len(v.s) : v.s[k] = NL

\* The newline-separated lines of s: one more than its newlines
LineCount(s) == 1 + Cardinality({k \in 1..Len(s) : s[k] = NL})

\* C9: in the saved workbook, a row with a cell value that contains a
\* newline has the height 15 * n, n the greatest number of lines among the
\* row's cell values, and a row with no such value has no height set.
C9_RowHeights ==
    out.exists =>
        \A k \in 1..Len(out.sheets) :
            LET ws == out.sheets[k]
            IN  \A r \in 1..MaxRow(ws) :
                    LET multi == {c \in 1..MaxCol(ws) : HasNewline(Value(ws, r, c))}
                    IN  IF multi # {}
                        THEN /\ r \in DOMAIN ws.height
                             /\ ws.height[r] =
                                    15 * Greatest({LineCount(Value(ws, r, c).s) : c \in multi})
                        ELSE r \notin DOMAIN ws.height

\* A row of three lines, a row of two, and a data row of one are sized
C9_Witness ==
    /\ out.exists
    /\ LET ws == SavedSheet("Software")
       IN  /\ \E r \in DOMAIN ws.height : ws.height[r] = 45
           /\ \E r \in DOMAIN ws.height : ws.height[r] = 30
           /\ \E r \in 2..MaxRow(ws) : r \notin DOMAIN ws.height

-----------------------------------------------------------------------------
Has(m, keys) == keys \subseteq DOMAIN m

\* The element d of the input array, its os mapping, one of its software
\* entries or one of its vulnerability entries lacks a required key
LacksKey(d) ==
    \/ ~Has(d, {"name", "fqdn", "ipAddresses", "macAddresses", "owner", "os",
                "software", "vulnerabilities"})
    \/ "os" \in DOMAIN d /\ ~Has(d["os"], {"name", "version"})
    \/ /\ "software" \in DOMAIN d
       /\ \E j \in 1..Len(d["software"]) :
              ~Has(d["software"][j], {"name", "version", "vendor"})
    \/ /\ "vulnerabilities" \in DOMAIN d
       /\ \E j \in 1..Len(d["vulnerabilities"]) :
              ~Has(d["vulnerabilities"][j],
                   {"kasperskyID", "productName", "descriptionURL",
                    "recommendedMajorPatch", "recommendedMinorPatch", "severityStr",
                    "severity", "cve", "exploitExists", "malwareExists"})

\* C6: if an element of the input array, at any position, lacks a required
\* key, the run never gets past converting: the conversion does not go
\* beyond that element, the run ends in a KeyError that leaves main, no
\* workbook is built and the output file is never written.
C6_MissingKeyAborts ==
    (file.kind = "json" /\ \E i \in 1..Len(Input) : LacksKey(Input[i])) =>
        /\ pc \in {"main", "convert", "raised"}
        /\ pc = "convert" => \A k \in 1..(idx - 1) : ~LacksKey(Input[k])
        /\ pc = "raised" => exc.type = "KeyError" /\ LacksKey(Input[Len(devices) + 1])
        /\ pc # "raised" => exc = NoException
        /\ wb = <<>>
        /\ out = NoFile

\* The last element is the one that lacks a key, and the run has raised
\* after converting the elements before it
C6_Witness ==
    /\ pc = "raised"
    /\ exc.type = "KeyError"
    /\ Len(Input) >= 2
    /\ Len(devices) = Len(Input) - 1
    /\ LacksKey(Input[Len(Input)])
    /\ out = NoFile

\* C7: when response.json does not exist or is not valid JSON, main prints
\* one line and returns without raising, having constructed no Device,
\* built no workbook and written no output file.
C7_FileErrorsReturnNormally ==
    (file.kind \in {"missing", "malformed", "undecodable"} /\ pc # "main") =>
        /\ pc = "returned"
        /\ exc = NoException
        /\ Len(stdout) = 1
        /\ devices = <<>>
        /\ wb = <<>>
        /\ out = NoFile

-----------------------------------------------------------------------------
ThreeSheets == <<"Device", "Software", "Vulnerability">>

Cells(w, title) ==
    IF \E k \in 1..Len(w) : w[k].title = title THEN Sheet(w, title).cells ELSE <<>>

Sizes(w) == [k \in 1..Len(w) |-> <<w[k].width, w[k].height>>]

LastRow(w, title) ==
    IF \E k \in 1..Len(w) : w[k].title = title THEN MaxRow(Sheet(w, title)) ELSE 0

DeviceSheetFull(w) == LastRow(w, "Device") = Len(Input) + 1

SoftwareSheetFull(w) ==
    LastRow(w, "Software") =
        IF Len(Input) = 0 THEN 1
        ELSE SoftwareStart(Len(Input)) + BlockRows(SoftwareCount(Len(Input))) - 1

VulnerabilitySheetFull(w) ==
    LastRow(w, "Vulnerability") =
        IF Len(Input) = 0 THEN 1
        ELSE VulnerabilityStart(Len(Input)) + BlockRows(VulnerabilityCount(Len(Input))) - 1

Populated(w) == DeviceSheetFull(w) /\ SoftwareSheetFull(w) /\ VulnerabilitySheetFull(w)

Sized(w) == \A k \in 1..Len(w) : DOMAIN w[k].width = 1..ColumnCount(w[k].title)

\* What a step may change, and when
C10_Step ==
    /\ data' # data => data = <<>> /\ devices = <<>> /\ wb = <<>> /\ out = NoFile
    /\ devices' # devices =>
           /\ file.kind = "json" /\ data = Input
           /\ wb = <<>> /\ wb' = <<>> /\ out = NoFile
    /\ wb' # wb =>
           /\ data = Input /\ Len(devices) = Len(Input)
           /\ out = NoFile /\ out' = NoFile
    /\ Cells(wb', "Software") # Cells(wb, "Software") =>
           DeviceSheetFull(wb) /\ Cells(wb', "Device") = Cells(wb, "Device")
    /\ Cells(wb', "Vulnerability") # Cells(wb, "Vulnerability") =>
           /\ DeviceSheetFull(wb) /\ SoftwareSheetFull(wb)
           /\ Cells(wb', "Device") = Cells(wb, "Device")
           /\ Cells(wb', "Software") = Cells(wb, "Software")
    /\ (wb # <<>> /\ Sizes(wb') # Sizes(wb)) =>
           /\ Populated(wb)
           /\ \A k \in 1..Len(wb) : wb'[k].cells = wb[k].cells
    /\ out' # out =>
           /\ out = NoFile
           /\ Populated(wb) /\ Sized(wb)
           /\ out' = [exists |-> TRUE, sheets |-> wb, writes |-> 1]
    /\ out.exists => out' = out /\ wb' = wb /\ devices' = devices

\* C10: the run loads the input, then converts all records, then writes the
\* Device, the Software and the Vulnerability sheet, then sizes, then saves:
\* the output file is written at most once, as the last of these steps,
\* from the populated and sized workbook, and holds exactly the sheets
\* Device, Software, Vulnerability in that order; no earlier step writes it.
C10_OrderedSingleSave ==
    /\ [](out.exists =>
             /\ out.writes = 1
             /\ SheetNames(out.sheets) = ThreeSheets
             /\ Populated(out.sheets) /\ Sized(out.sheets))
    /\ [](~out.exists => out = NoFile)
    /\ [][C10_Step]_vars

C10_Witness == pc = "returned" /\ out.exists /\ out.sheets = wb /\ Len(devices) >= 2

====
